---- MODULE Spec2Model ----
(***************************************************************************)
(* A model of the gocache cache engine: the entry table (map[string]*Entry)*)
(* coupled with the intrusive doubly-linked list (head / tail / previous / *)
(* next), the eviction engine, the TTL machinery and the gob snapshot      *)
(* persistence (SaveToFile / ReadFromFile).                                *)
(*                                                                         *)
(* Entries are heap objects with identity: the map holds pointers, and the *)
(* list links are pointers.  A pointer is a positive object id, Nil is the *)
(* nil pointer.  Objects that no pointer reaches are collected, and object *)
(* ids are renumbered after every operation (Go compares pointers only for *)
(* equality, so the addresses themselves carry no meaning).                *)
(***************************************************************************)
EXTENDS Integers, Sequences, FiniteSets, TLC

VARIABLES
    entries,         \* cache.entries: key -> pointer to Entry (Nil: no such key)
    heap,            \* the Entry objects: object id -> Entry
    head,            \* cache.head
    tail,            \* cache.tail
    memoryUsage,     \* cache.memoryUsage
    maxSize,         \* cache.maxSize
    maxMemoryUsage,  \* cache.maxMemoryUsage
    evictionPolicy,  \* cache.evictionPolicy
    stats,           \* cache.stats: Hits, Misses, EvictedKeys
    mutex,           \* cache.mutex: "unlocked", or "locked" by a call that never released it
    now,             \* the wall clock read by time.Now()
    file,            \* the file at the path given to SaveToFile and ReadFromFile
    ret,             \* the last public call and what it returned
    calls            \* per goroutine, the call it is in the middle of

vars == <<entries, heap, head, tail, memoryUsage, maxSize, maxMemoryUsage,
          evictionPolicy, stats, mutex, now, file, ret, calls>>

----------------------------------------------------------------------------
(* Program constants *)

NoMaxSize == 0

NoMaxMemoryUsage == 0

DefaultMaxSize == 100000

NoExpiration == -1

FirstInFirstOut == "FirstInFirstOut"

LeastRecentlyUsed == "LeastRecentlyUsed"

(* The nil pointer. *)
Nil == 0

----------------------------------------------------------------------------
(* Bounds of the model *)

\* The clock starts at StartTime and is advanced at most MaxTicks times.
StartTime == 10

MaxTicks == 2

\* Each statistics counter is followed up to MaxStat.
MaxStat == 2

\* Reachable Entry objects that are no longer in the map (stale objects).
MaxStale == 1

\* memoryUsage, which drifts once it stops being the sum of the sizes, is
\* followed within -MaxUsage .. MaxUsage.
MaxUsage == 10

Keys == {"a", "b", "c"}

\* The keys in a fixed order (used only to number objects canonically).
KeySeq == <<"a", "b", "c">>

\* Two values of different byte length.
Values == {"v", "ww"}

\* The TTLs a caller passes: NoExpiration, a negative TTL, a positive TTL.
TTLs == {NoExpiration, -2, 1}

\* The arguments given to WithMaxSize: negative, and two small caps.
MaxSizeArgs == {-1, 1, 2}

\* The arguments given to WithMaxMemoryUsage: negative, a budget of one small
\* entry, a budget of two entries.
MaxMemoryArgs == {-1, 4, 9}

----------------------------------------------------------------------------
(* Entry *)

\* toBytes of a string: its byte length.
toBytes(s) == Len(s)

\* The fixed structural overhead of an entry.
EntryOverhead == 2

\* entry.SizeInBytes()
SizeInBytes(e) == toBytes(e.Key) + toBytes(e.Value) + EntryOverhead

\* entry.Expired() at clock t
Expired(e, t) == e.Expiration # NoExpiration /\ t >= e.Expiration

\* entry.Accessed() at clock t
Accessed(e, t) == [e EXCEPT !.RelevantTimestamp = t]

\* &Entry{Key: key, Value: value, RelevantTimestamp: t, previous: prev}
NewEntry(key, value, t, prev) ==
    [Key |-> key, Value |-> value, RelevantTimestamp |-> t, Expiration |-> 0,
     previous |-> prev, next |-> Nil]

----------------------------------------------------------------------------
(* The cache as one record, so that the helpers compose as in the code. *)

Cache ==
    [entries |-> entries, heap |-> heap, head |-> head, tail |-> tail,
     memoryUsage |-> memoryUsage, maxSize |-> maxSize,
     maxMemoryUsage |-> maxMemoryUsage, evictionPolicy |-> evictionPolicy,
     stats |-> stats]

\* len(cache.entries)
LenEntries(c) == Cardinality({k \in Keys : c.entries[k] # Nil})

\* cache.get(key): the pointer stored under key (Nil when !ok)
get(c, key) == c.entries[key]

\* Allocation of a new Entry object: the pointer it gets.
NewPointer(c) == Len(c.heap) + 1

\* cache.removeExistingEntryReferences(entry)
removeExistingEntryReferences(c, entry) ==
    LET h0 == c.heap
        newTail == IF c.tail = entry /\ c.head = entry THEN Nil
                   ELSE IF c.tail = entry THEN h0[c.tail].next
                   ELSE c.tail
        newHead == IF c.tail = entry /\ c.head = entry THEN Nil
                   ELSE IF c.tail = entry THEN c.head
                   ELSE IF c.head = entry THEN h0[c.head].previous
                   ELSE c.head
        h1 == IF h0[entry].previous # Nil
              THEN [h0 EXCEPT ![h0[entry].previous].next = h0[entry].next]
              ELSE h0
        h2 == IF h1[entry].next # Nil
              THEN [h1 EXCEPT ![h1[entry].next].previous = h1[entry].previous]
              ELSE h1
        h3 == [h2 EXCEPT ![entry].next = Nil, ![entry].previous = Nil]
    IN  [c EXCEPT !.heap = h3, !.tail = newTail, !.head = newHead]

\* A move to head that leaves the entry where it is.
leaveExistingEntry(c, entry) == c

\* cache.moveExistingEntryToHead(entry)
moveExistingEntryToHead(c, entry) ==
    LET c1 == IF ~(entry = c.head /\ entry = c.tail)
              THEN removeExistingEntryReferences(c, entry)
              ELSE c
    IN  IF entry # c1.head
        THEN LET h1 == [c1.heap EXCEPT ![entry].previous = c1.head,
                                       ![entry].next = Nil]
                 h2 == IF c1.head # Nil
                       THEN [h1 EXCEPT ![c1.head].next = entry]
                       ELSE h1
             IN  [c1 EXCEPT !.heap = h2, !.head = entry]
        ELSE c1

\* cache.delete(key): the cache afterwards (the result ok is get(c, key) # Nil)
delete(c, key) ==
    LET entry == c.entries[key]
    IN  IF entry # Nil
        THEN LET c1 == IF c.maxMemoryUsage # NoMaxMemoryUsage
                       THEN [c EXCEPT !.memoryUsage = @ - SizeInBytes(c.heap[entry])]
                       ELSE c
                 c2 == removeExistingEntryReferences(c1, entry)
             IN  [c2 EXCEPT !.entries[key] = Nil]
        ELSE c

\* cache.evict()
evict(c) ==
    IF c.tail = Nil \/ LenEntries(c) = 0
    THEN c
    ELSE LET oldTail == c.tail
             c1 == removeExistingEntryReferences(c, oldTail)
             c2 == [c1 EXCEPT !.entries[c.heap[oldTail].Key] = Nil]
             c3 == IF c2.maxMemoryUsage # NoMaxMemoryUsage
                   THEN [c2 EXCEPT !.memoryUsage = @ - SizeInBytes(c2.heap[oldTail])]
                   ELSE c2
         IN  [c3 EXCEPT !.stats.EvictedKeys = @ + 1]

----------------------------------------------------------------------------
(* Garbage collection and canonical numbering of the Entry objects.        *)

Range(s) == {s[i] : i \in DOMAIN s}

IndexOf(s, x) == CHOOSE i \in DOMAIN s : s[i] = x

AppendNew(s, p) == IF p # Nil /\ p \notin Range(s) THEN Append(s, p) ELSE s

\* The pointers of the map, in key order.
RECURSIVE LivePointers(_, _)
LivePointers(c, i) ==
    IF i > Len(KeySeq) THEN << >>
    ELSE IF c.entries[KeySeq[i]] # Nil
         THEN <<c.entries[KeySeq[i]]>> \o LivePointers(c, i + 1)
         ELSE LivePointers(c, i + 1)

\* Every object a pointer of the cache reaches, in the order a breadth-first
\* walk from the map, head and tail finds it.
RECURSIVE ReachOrder(_, _, _)
ReachOrder(h, ord, i) ==
    IF i > Len(ord) THEN ord
    ELSE ReachOrder(h, AppendNew(AppendNew(ord, h[ord[i]].previous), h[ord[i]].next), i + 1)

\* The goroutines that call the cache at the same time
Threads == {1, 2}

ThreadSeq == <<1, 2>>

\* A goroutine that is in no call
Idle == [op |-> "idle", key |-> "", ttl |-> 0, entry |-> Nil, n |-> 0]

\* The local variable `entry` of the calls cs, per goroutine
HeldBy(cs) == [i \in DOMAIN ThreadSeq |-> cs[ThreadSeq[i]].entry]

RECURSIVE AppendAllNew(_, _, _)
AppendAllNew(s, ps, i) ==
    IF i > Len(ps) THEN s ELSE AppendAllNew(AppendNew(s, ps[i]), ps, i + 1)

\* Every object reachable from the cache or from the pointers in held
Reached(c, held) ==
    ReachOrder(c.heap,
               AppendAllNew(AppendNew(AppendNew(LivePointers(c, 1), c.head), c.tail),
                            held, 1),
               1)

\* The number of pointer p once the objects are numbered in the order ord
Renumbered(ord, p) == IF p = Nil THEN Nil ELSE IndexOf(ord, p)

\* The cache with the objects outside ord dropped and those of ord numbered in
\* that order.
CollectAs(c, ord) ==
    [c EXCEPT
        !.heap = [i \in 1..Len(ord) |->
                    [c.heap[ord[i]] EXCEPT !.previous = Renumbered(ord, @),
                                           !.next = Renumbered(ord, @)]],
        !.entries = [k \in Keys |-> Renumbered(ord, c.entries[k])],
        !.head = Renumbered(ord, c.head),
        !.tail = Renumbered(ord, c.tail)]

\* The cache with unreachable objects dropped and the reachable ones numbered
\* in ReachOrder: objects of the map first (by key), stale objects after.
Collect(c) == CollectAs(c, Reached(c, << >>))

\* Objects that are reachable but not in the map.
StaleCount(c) == Len(c.heap) - LenEntries(c)

----------------------------------------------------------------------------
(* Eviction loops.  A loop whose evict() call returns at once (tail = nil)  *)
(* while its condition still holds never ends: spins is TRUE, and the call  *)
(* never returns.                                                           *)

\* for cache.memoryUsage > cache.maxMemoryUsage && len(cache.entries) > 0 { evict() }
RECURSIVE evictWhileOverMemory(_, _)
evictWhileOverMemory(c, n) ==
    IF c.memoryUsage > c.maxMemoryUsage /\ LenEntries(c) > 0
    THEN IF c.tail = Nil
         THEN [cache |-> c, evictions |-> n, spins |-> TRUE]
         ELSE evictWhileOverMemory(evict(c), n + 1)
    ELSE [cache |-> c, evictions |-> n, spins |-> FALSE]

\* A loop that gives up after its first eviction.
evictOnceOverSize(c, n) ==
    IF LenEntries(c) > c.maxSize /\ c.tail # Nil
    THEN [cache |-> evict(c), evictions |-> n + 1, spins |-> FALSE]
    ELSE [cache |-> c, evictions |-> n, spins |-> FALSE]

\* for len(cache.entries) > cache.maxSize { evict() }
RECURSIVE evictWhileOverSize(_, _)
evictWhileOverSize(c, n) ==
    IF LenEntries(c) > c.maxSize
    THEN IF c.tail = Nil
         THEN [cache |-> c, evictions |-> n, spins |-> TRUE]
         ELSE evictWhileOverSize(evict(c), n + 1)
    ELSE [cache |-> c, evictions |-> n, spins |-> FALSE]

----------------------------------------------------------------------------
(* SetWithTTL *)

\* The insert path of SetWithTTL: key is not in the map.
SetInsert(c, key, value, t) ==
    LET entry == NewPointer(c)
        h1 == Append(c.heap, NewEntry(key, value, t, c.head))
        h2 == IF c.head # Nil THEN [h1 EXCEPT ![c.head].next = entry] ELSE h1
        c1 == [c EXCEPT !.heap = h2,
                        !.tail = IF c.head = Nil THEN entry ELSE @,
                        !.head = entry,
                        !.entries[key] = entry]
    IN  IF c1.maxMemoryUsage # NoMaxMemoryUsage
        THEN [c1 EXCEPT !.memoryUsage = @ + SizeInBytes(c1.heap[entry])]
        ELSE c1

\* The update path of SetWithTTL: key is in the map.
SetUpdate(c, key, value) ==
    LET entry == c.entries[key]
        c1 == IF c.maxMemoryUsage # NoMaxMemoryUsage
              THEN [c EXCEPT !.memoryUsage = @ - SizeInBytes(c.heap[entry])]
              ELSE c
        c2 == [c1 EXCEPT !.heap[entry].Value = value]
        c3 == IF c2.maxMemoryUsage # NoMaxMemoryUsage
              THEN [c2 EXCEPT !.memoryUsage = @ + SizeInBytes(c2.heap[entry])]
              ELSE c2
    IN  moveExistingEntryToHead(c3, entry)

\* entry.Expiration as SetWithTTL and Expire compute it at clock t
ExpirationFor(ttl, t) == IF ttl # NoExpiration THEN t + ttl ELSE NoExpiration

\* The eviction that ends SetWithTTL.
SetEnforceBounds(c) ==
    IF c.maxSize = NoMaxSize /\ c.maxMemoryUsage = NoMaxMemoryUsage
    THEN [cache |-> c, evictions |-> 0, spins |-> FALSE]
    ELSE LET c1 == IF c.maxSize # NoMaxSize /\ LenEntries(c) > c.maxSize
                   THEN evict(c)
                   ELSE c
         IN  IF c1.maxMemoryUsage # NoMaxMemoryUsage /\ c1.memoryUsage > c1.maxMemoryUsage
             THEN evictWhileOverMemory(c1, 0)
             ELSE [cache |-> c1, evictions |-> 0, spins |-> FALSE]

\* SetWithTTL up to the assignment of entry.Expiration: the cache on which the
\* bounds are then enforced (key is in the map, or ttl is no negative TTL).
setEntry(c, key, value, ttl, t) ==
    LET c1 == IF get(c, key) = Nil
              THEN SetInsert(c, key, value, t)
              ELSE SetUpdate(c, key, value)
        entry == c1.entries[key]
    IN  [c1 EXCEPT !.heap[entry].Expiration = ExpirationFor(ttl, t)]

\* A SetWithTTL that creates the entry whatever the TTL.
setWithAnyTTL(c, key, value, ttl, t) ==
    SetEnforceBounds(setEntry(c, key, value, ttl, t))

\* SetWithTTL(key, value, ttl) at clock t
setWithTTL(c, key, value, ttl, t) ==
    IF get(c, key) = Nil /\ ttl # NoExpiration /\ ttl < 0
    THEN [cache |-> c, evictions |-> 0, spins |-> FALSE]
    ELSE SetEnforceBounds(setEntry(c, key, value, ttl, t))

----------------------------------------------------------------------------
(* Get *)

NoValue == "<nil>"

\* A Get that promotes the entry it finds whatever the eviction policy.
getValuePromoting(c, key, t) ==
    LET entry == get(c, key)
    IN  IF entry = Nil
        THEN [cache |-> [c EXCEPT !.stats.Misses = @ + 1], value |-> NoValue, ok |-> FALSE]
        ELSE LET c1 == [c EXCEPT !.stats.Hits = @ + 1]
             IN  IF Expired(c1.heap[entry], t)
                 THEN [cache |-> delete(c1, key), value |-> NoValue, ok |-> FALSE]
                 ELSE LET c2 == [c1 EXCEPT !.heap[entry] = Accessed(@, t)]
                      IN  [cache |-> IF c2.head = entry THEN c2
                                     ELSE moveExistingEntryToHead(c2, entry),
                           value |-> c2.heap[entry].Value, ok |-> TRUE]

\* Get(key) at clock t: the cache afterwards and the pair returned
getValue(c, key, t) ==
    LET entry == get(c, key)
    IN  IF entry = Nil
        THEN [cache |-> [c EXCEPT !.stats.Misses = @ + 1], value |-> NoValue, ok |-> FALSE]
        ELSE LET c1 == [c EXCEPT !.stats.Hits = @ + 1]
             IN  IF Expired(c1.heap[entry], t)
                 THEN [cache |-> delete(c1, key), value |-> NoValue, ok |-> FALSE]
                 ELSE IF c1.evictionPolicy = LeastRecentlyUsed
                      THEN LET c2 == [c1 EXCEPT !.heap[entry] = Accessed(@, t)]
                           IN  [cache |-> IF c2.head = entry THEN c2
                                          ELSE moveExistingEntryToHead(c2, entry),
                                value |-> c2.heap[entry].Value, ok |-> TRUE]
                      ELSE [cache |-> c1, value |-> c1.heap[entry].Value, ok |-> TRUE]

----------------------------------------------------------------------------
(* TTL and Expire *)

ErrKeyDoesNotExist == "key does not exist"

ErrKeyHasNoExpiration == "key has no expiration"

NoError == "nil"

\* The error of decoder.Decode
ErrDecode == "decode failed"

\* A TTL that does not test the sign of the remaining time.
ttlOfUnchecked(c, key, t) ==
    LET entry == get(c, key)
    IN  IF entry = Nil
        THEN [n |-> 0, err |-> ErrKeyDoesNotExist]
        ELSE IF c.heap[entry].Expiration = NoExpiration
             THEN [n |-> 0, err |-> ErrKeyHasNoExpiration]
             ELSE [n |-> c.heap[entry].Expiration - t, err |-> NoError]

\* TTL(key) at clock t: the duration and the error returned
ttlOf(c, key, t) ==
    LET entry == get(c, key)
    IN  IF entry = Nil
        THEN [n |-> 0, err |-> ErrKeyDoesNotExist]
        ELSE IF c.heap[entry].Expiration = NoExpiration
             THEN [n |-> 0, err |-> ErrKeyHasNoExpiration]
             ELSE IF c.heap[entry].Expiration - t < 0
                  THEN [n |-> 0, err |-> ErrKeyDoesNotExist]
                  ELSE [n |-> c.heap[entry].Expiration - t, err |-> NoError]

\* An Expire that counts as an access: it makes the entry the head.
expireEntryPromoting(c, entry, ttl, t) ==
    IF entry = Nil \/ Expired(c.heap[entry], t)
    THEN [cache |-> c, ok |-> FALSE]
    ELSE [cache |-> moveExistingEntryToHead(
                        [c EXCEPT !.heap[entry].Expiration = ExpirationFor(ttl, t)],
                        entry),
          ok |-> TRUE]

\* Expire once cache.get(key) gave entry (nil: !ok), at clock t: the cache
\* afterwards and the boolean returned
expireEntry(c, entry, ttl, t) ==
    IF entry = Nil \/ Expired(c.heap[entry], t)
    THEN [cache |-> c, ok |-> FALSE]
    ELSE [cache |-> [c EXCEPT !.heap[entry].Expiration = ExpirationFor(ttl, t)],
          ok |-> TRUE]

\* Expire(key, ttl) at clock t: the cache afterwards and the boolean returned
expire(c, key, ttl, t) == expireEntry(c, get(c, key), ttl, t)

----------------------------------------------------------------------------
(* Pattern search *)

Patterns == {"*", "a"}

\* MatchPattern(pattern, key), for the patterns above
MatchPattern(pattern, key) == pattern = "*" \/ pattern = key

\* The key sets GetKeysByPattern(pattern, limit) may return: the map is walked
\* in no particular order and the walk stops at limit matches.
getKeysByPattern(c, pattern, limit) ==
    LET matching == {k \in Keys : c.entries[k] # Nil /\ MatchPattern(pattern, k)}
    IN  IF limit > 0 /\ Cardinality(matching) > limit
        THEN {m \in SUBSET matching : Cardinality(m) = limit}
        ELSE {matching}

----------------------------------------------------------------------------
(* Snapshot persistence *)

\* What gob writes for cache.entries: per key the exported fields of its Entry
\* (Key, Value, RelevantTimestamp, Expiration); previous and next are unexported
\* and are not written.
gobEncode(c) ==
    [k \in {x \in Keys : c.entries[x] # Nil} |->
        [Key |-> c.heap[c.entries[k]].Key,
         Value |-> c.heap[c.entries[k]].Value,
         RelevantTimestamp |-> c.heap[c.entries[k]].RelevantTimestamp,
         Expiration |-> c.heap[c.entries[k]].Expiration]]

NoSnapshot == [k \in {} |-> 0]

\* decoder.Decode(&cache.entries): gob decodes into the map it is given.  Every
\* key of the stream gets a newly allocated Entry (links nil); keys of the map
\* that the stream does not hold stay as they are.
RECURSIVE gobDecode(_, _, _)
gobDecode(c, snapshot, i) ==
    IF i > Len(KeySeq) THEN c
    ELSE IF KeySeq[i] \in DOMAIN snapshot
         THEN LET e == snapshot[KeySeq[i]]
                  obj == [Key |-> e.Key, Value |-> e.Value,
                          RelevantTimestamp |-> e.RelevantTimestamp,
                          Expiration |-> e.Expiration,
                          previous |-> Nil, next |-> Nil]
              IN  gobDecode([c EXCEPT !.heap = Append(@, obj),
                                      !.entries[KeySeq[i]] = NewPointer(c)],
                            snapshot, i + 1)
         ELSE gobDecode(c, snapshot, i + 1)

\* The slices sort.Slice may leave: the entries of the map, oldest first.  The
\* map is walked in no particular order and the sort is not stable, so entries
\* of equal RelevantTimestamp come in any order.
SortedEntries(c) ==
    LET live == {c.entries[k] : k \in {x \in Keys : c.entries[x] # Nil}}
        n == Cardinality(live)
    IN  {s \in [1..n -> live] :
            /\ \A i, j \in 1..n : i # j => s[i] # s[j]
            /\ \A i, j \in 1..n :
                 i < j => c.heap[s[i]].RelevantTimestamp <= c.heap[s[j]].RelevantTimestamp}

\* The relink loop of ReadFromFile, from index i on, previous being the entry
\* linked last.
RECURSIVE relink(_, _, _, _)
relink(c, sorted, i, previous) ==
    IF i > Len(sorted) THEN c
    ELSE LET current == sorted[i]
             c1 == IF previous = Nil
                   THEN [c EXCEPT !.tail = current, !.head = current]
                   ELSE [c EXCEPT !.heap[previous].next = current,
                                  !.heap[current].previous = previous,
                                  !.head = current]
             c2 == IF c1.maxMemoryUsage # NoMaxMemoryUsage
                   THEN [c1 EXCEPT !.memoryUsage = @ + SizeInBytes(c1.heap[current])]
                   ELSE c1
         IN  relink(c2, sorted, i + 1, current)

\* The eviction that ends ReadFromFile.
ReadEnforceBounds(c) ==
    IF c.maxSize = NoMaxSize /\ c.maxMemoryUsage = NoMaxMemoryUsage
    THEN [cache |-> c, evictions |-> 0, spins |-> FALSE]
    ELSE LET bySize == IF c.maxSize # NoMaxSize /\ LenEntries(c) > c.maxSize
                       THEN evictWhileOverSize(c, 0)
                       ELSE [cache |-> c, evictions |-> 0, spins |-> FALSE]
             c1 == bySize.cache
         IN  IF bySize.spins THEN bySize
             ELSE IF c1.maxMemoryUsage # NoMaxMemoryUsage
                     /\ c1.memoryUsage > c1.maxMemoryUsage
                  THEN evictWhileOverMemory(c1, bySize.evictions)
                  ELSE bySize

\* ReadFromFile once the stream is decoded and the entries are relinked: the
\* caches on which the bounds are then enforced, one per sorted slice
readRelinked(c, snapshot) ==
    LET decoded == gobDecode(c, snapshot, 1)
    IN  {relink(decoded, s, 1, Nil) : s \in SortedEntries(decoded)}

\* ReadFromFile once the stream is decoded: the outcomes
readFromFile(c, snapshot) ==
    {ReadEnforceBounds(x) : x \in readRelinked(c, snapshot)}

----------------------------------------------------------------------------
(* The state machine *)

\* What a call returns: value and ok (Get), ok (Delete, Expire), n (Count, the
\* duration of TTL, the evictions of ReadFromFile), err (TTL, ReadFromFile,
\* SaveToFile), keys (GetKeysByPattern).  Returned is what a call with no result
\* leaves; a call with results changes the fields it returns.
Returned ==
    [value |-> NoValue, ok |-> FALSE, n |-> 0, err |-> NoError, keys |-> {}]

\* The model follows the counters up to MaxStat and at most MaxStale stale objects.
WithinBounds(c) ==
    /\ c.stats.Hits <= MaxStat
    /\ c.stats.Misses <= MaxStat
    /\ c.stats.EvictedKeys <= MaxStat
    /\ StaleCount(c) <= MaxStale
    /\ c.memoryUsage <= MaxUsage
    /\ c.memoryUsage >= -MaxUsage

\* The cache after a step that leaves the calls in flight as cs: c, with its
\* garbage collected; the objects a call in flight still points to are kept.
BecomesWith(c, cs) ==
    LET ord == Reached(c, HeldBy(cs))
        d == CollectAs(c, ord)
    IN  /\ WithinBounds(d)
        /\ calls' = [t \in Threads |-> [cs[t] EXCEPT !.entry = Renumbered(ord, @)]]
        /\ entries' = d.entries
        /\ heap' = d.heap
        /\ head' = d.head
        /\ tail' = d.tail
        /\ memoryUsage' = d.memoryUsage
        /\ maxSize' = d.maxSize
        /\ maxMemoryUsage' = d.maxMemoryUsage
        /\ evictionPolicy' = d.evictionPolicy
        /\ stats' = d.stats

\* The cache after a call that ran from start to end: c, with its garbage collected.
Becomes(c) == BecomesWith(c, calls)

CacheUnchanged ==
    UNCHANGED <<entries, heap, head, tail, memoryUsage, maxSize, maxMemoryUsage,
                evictionPolicy, stats>>

\* NewCache()
Init ==
    /\ entries = [k \in Keys |-> Nil]
    /\ heap = << >>
    /\ head = Nil
    /\ tail = Nil
    /\ memoryUsage = 0
    /\ maxSize = DefaultMaxSize
    /\ maxMemoryUsage = 0
    /\ evictionPolicy = FirstInFirstOut
    /\ stats = [Hits |-> 0, Misses |-> 0, EvictedKeys |-> 0]
    /\ mutex = "unlocked"
    /\ now = StartTime
    /\ file = [exists |-> FALSE, gob |-> FALSE, snapshot |-> NoSnapshot]
    /\ ret = Returned
    /\ calls = [t \in Threads |-> Idle]

\* Time passes.
Tick ==
    /\ now < StartTime + MaxTicks
    /\ now' = now + 1
    /\ CacheUnchanged
    /\ UNCHANGED <<mutex, file, ret, calls>>

WithMaxSize(n) ==
    /\ Becomes([Cache EXCEPT !.maxSize = IF n < 0 THEN NoMaxSize ELSE n])
    /\ ret' = Returned
    /\ UNCHANGED <<mutex, now, file>>

WithMaxMemoryUsage(n) ==
    /\ Becomes([Cache EXCEPT !.maxMemoryUsage = IF n < 0 THEN NoMaxMemoryUsage ELSE n])
    /\ ret' = Returned
    /\ UNCHANGED <<mutex, now, file>>

WithEvictionPolicy(policy) ==
    /\ Becomes([Cache EXCEPT !.evictionPolicy = policy])
    /\ ret' = Returned
    /\ UNCHANGED <<mutex, now, file>>

\* A call that ends in an eviction loop: it returns, or it spins in the loop
\* with the mutex locked.
EndsWith(r, returned) ==
    /\ Becomes(r.cache)
    /\ mutex' = IF r.spins THEN "locked" ELSE "unlocked"
    /\ ret' = IF r.spins THEN [returned EXCEPT !.err = "never returns"] ELSE returned

SetWithTTL(key, value, ttl) ==
    /\ mutex = "unlocked"
    /\ EndsWith(setWithTTL(Cache, key, value, ttl, now), Returned)
    /\ UNCHANGED <<now, file>>

Get(key) ==
    /\ mutex = "unlocked"
    /\ LET r == getValue(Cache, key, now)
       IN  /\ Becomes(r.cache)
           /\ ret' = [Returned EXCEPT !.value = r.value, !.ok = r.ok]
    /\ UNCHANGED <<mutex, now, file>>

Delete(key) ==
    /\ mutex = "unlocked"
    /\ Becomes(delete(Cache, key))
    /\ ret' = [Returned EXCEPT !.ok = (get(Cache, key) # Nil)]
    /\ UNCHANGED <<mutex, now, file>>

Clear ==
    /\ mutex = "unlocked"
    /\ Becomes([Cache EXCEPT !.entries = [k \in Keys |-> Nil],
                             !.memoryUsage = 0,
                             !.head = Nil,
                             !.tail = Nil])
    /\ ret' = Returned
    /\ UNCHANGED <<mutex, now, file>>

Count ==
    /\ mutex = "unlocked"
    /\ ret' = [Returned EXCEPT !.n = LenEntries(Cache)]
    /\ CacheUnchanged
    /\ UNCHANGED <<mutex, now, file, calls>>

TTL(key) ==
    /\ mutex = "unlocked"
    /\ LET r == ttlOf(Cache, key, now)
       IN  ret' = [Returned EXCEPT !.n = r.n, !.err = r.err]
    /\ CacheUnchanged
    /\ UNCHANGED <<mutex, now, file, calls>>

\* Expire takes no lock.
Expire(key, ttl) ==
    /\ LET r == expire(Cache, key, ttl, now)
       IN  /\ Becomes(r.cache)
           /\ ret' = [Returned EXCEPT !.ok = r.ok]
    /\ UNCHANGED <<mutex, now, file>>

\* A pattern search that counts as an access: a hit.
GetKeysByPatternAsAccess(pattern, limit) ==
    /\ mutex = "unlocked"
    /\ \E matchingKeys \in getKeysByPattern(Cache, pattern, limit) :
          ret' = [Returned EXCEPT !.keys = matchingKeys]
    /\ Becomes([Cache EXCEPT !.stats.Hits = @ + 1])
    /\ UNCHANGED <<mutex, now, file>>

GetKeysByPattern(pattern, limit) ==
    /\ mutex = "unlocked"
    /\ \E matchingKeys \in getKeysByPattern(Cache, pattern, limit) :
          ret' = [Returned EXCEPT !.keys = matchingKeys]
    /\ CacheUnchanged
    /\ UNCHANGED <<mutex, now, file, calls>>

SaveToFile ==
    /\ mutex = "unlocked"
    /\ file' = [exists |-> TRUE, gob |-> TRUE, snapshot |-> gobEncode(Cache)]
    /\ ret' = Returned
    /\ CacheUnchanged
    /\ UNCHANGED <<mutex, now, calls>>

\* A file at the path that is no gob stream of a map of entries: an empty file,
\* a cut one, or one that something else wrote.
WriteOtherFile ==
    /\ file' = [exists |-> TRUE, gob |-> FALSE, snapshot |-> NoSnapshot]
    /\ CacheUnchanged
    /\ UNCHANGED <<mutex, now, ret, calls>>

\* ReadFromFile of the file at the path: os.OpenFile fails and the call returns
\* before it locks; or Decode fails and the call returns with the mutex locked;
\* or the entries are decoded, relinked and bounded.
ReadFromFile ==
    /\ mutex = "unlocked"
    /\ IF ~file.exists
       THEN /\ ret' = [Returned EXCEPT !.err = "open failed"]
            /\ CacheUnchanged
            /\ UNCHANGED <<mutex, calls>>
       ELSE IF ~file.gob
            THEN /\ ret' = [Returned EXCEPT !.err = ErrDecode]
                 /\ mutex' = "locked"
                 /\ CacheUnchanged
                 /\ UNCHANGED calls
            ELSE \E r \in readFromFile(Cache, file.snapshot) :
                     EndsWith(r, [Returned EXCEPT !.n = r.evictions])
    /\ UNCHANGED <<now, file>>

Next ==
    \/ Tick
    \/ \E n \in MaxSizeArgs : WithMaxSize(n)
    \/ \E n \in MaxMemoryArgs : WithMaxMemoryUsage(n)
    \/ \E policy \in {FirstInFirstOut, LeastRecentlyUsed} : WithEvictionPolicy(policy)
    \/ \E key \in Keys, value \in Values, ttl \in TTLs : SetWithTTL(key, value, ttl)
    \/ \E key \in Keys : Get(key)
    \/ \E key \in Keys : Delete(key)
    \/ Clear
    \/ Count
    \/ \E key \in Keys : TTL(key)
    \/ \E key \in Keys, ttl \in TTLs : Expire(key, ttl)
    \/ \E pattern \in Patterns, limit \in {0, 1} : GetKeysByPattern(pattern, limit)
    \/ SaveToFile
    \/ WriteOtherFile
    \/ ReadFromFile

Spec == Init /\ [][Next]_vars

----------------------------------------------------------------------------
(* Views of the state used by the properties *)

\* The pointers met walking next from p, until nil or a pointer met before.
RECURSIVE WalkNext(_, _, _)
WalkNext(h, p, seen) ==
    IF p = Nil \/ p \in Range(seen) THEN seen
    ELSE WalkNext(h, h[p].next, Append(seen, p))

\* The pointers met walking previous from p, until nil or a pointer met before.
RECURSIVE WalkPrevious(_, _, _)
WalkPrevious(h, p, seen) ==
    IF p = Nil \/ p \in Range(seen) THEN seen
    ELSE WalkPrevious(h, h[p].previous, Append(seen, p))

Reverse(s) == [i \in 1..Len(s) |-> s[Len(s) + 1 - i]]

\* The keys of the list from tail to head (walking next).
ListKeys(c) ==
    LET w == WalkNext(c.heap, c.tail, << >>)
    IN  [i \in 1..Len(w) |-> c.heap[w[i]].Key]

\* The keys of the list from head to tail (walking previous).
ListKeysBackward(c) ==
    LET w == WalkPrevious(c.heap, c.head, << >>)
    IN  [i \in 1..Len(w) |-> c.heap[w[i]].Key]

\* p is the entry the map holds under its key
InMap(c, p) == c.entries[c.heap[p].Key] = p

\* The keys of the entries of the map met walking next from tail, in that order
\* (entries that have left the map may still be linked; they are left out).
LiveList(c) ==
    LET w == SelectSeq(WalkNext(c.heap, c.tail, << >>), LAMBDA p : InMap(c, p))
    IN  [i \in 1..Len(w) |-> c.heap[w[i]].Key]

\* The keys of the entries of the map met walking previous from head
LiveListBackward(c) ==
    LET w == SelectSeq(WalkPrevious(c.heap, c.head, << >>), LAMBDA p : InMap(c, p))
    IN  [i \in 1..Len(w) |-> c.heap[w[i]].Key]

\* The walk from tail ends at nil (and not in a cycle); likewise from head.
NextWalkEnds(c) ==
    LET w == WalkNext(c.heap, c.tail, << >>)
    IN  w = << >> \/ c.heap[w[Len(w)]].next = Nil

PreviousWalkEnds(c) ==
    LET w == WalkPrevious(c.heap, c.head, << >>)
    IN  w = << >> \/ c.heap[w[Len(w)]].previous = Nil

\* The key set of the map.
MapKeys(c) == {k \in Keys : c.entries[k] # Nil}

NoDuplicates(s) == \A i, j \in 1..Len(s) : i # j => s[i] # s[j]

\* The last call returned (it is not spinning in an eviction loop).
Returns == ret.err # "never returns"

RECURSIVE SumOfSizes(_, _)
SumOfSizes(c, ks) ==
    IF ks = {} THEN 0
    ELSE LET k == CHOOSE x \in ks : TRUE
         IN  SizeInBytes(c.heap[c.entries[k]]) + SumOfSizes(c, ks \ {k})

----------------------------------------------------------------------------
(* A cache configured at construction:                                     *)
(*   NewCache().WithMaxSize(s).WithMaxMemoryUsage(m).WithEvictionPolicy(p) *)

Configured(sizes, memories, policies) ==
    /\ entries = [k \in Keys |-> Nil]
    /\ heap = << >>
    /\ head = Nil
    /\ tail = Nil
    /\ memoryUsage = 0
    /\ maxSize \in sizes
    /\ maxMemoryUsage \in memories
    /\ evictionPolicy \in policies
    /\ stats = [Hits |-> 0, Misses |-> 0, EvictedKeys |-> 0]
    /\ mutex = "unlocked"
    /\ now = StartTime
    /\ file = [exists |-> FALSE, gob |-> FALSE, snapshot |-> NoSnapshot]
    /\ ret = Returned
    /\ calls = [t \in Threads |-> Idle]

\* Set(key, value)
Set(key, value) == SetWithTTL(key, value, NoExpiration)

----------------------------------------------------------------------------
(* SpecLoad: a cache, with or without a memory bound, that is written,     *)
(* deleted from, saved and loaded in any order while time passes (two of   *)
(* the keys are used).                                                     *)

LoadKeys == {"a", "b"}

InitLoad == Configured({DefaultMaxSize}, {NoMaxMemoryUsage, 9}, {FirstInFirstOut})

NextLoad ==
    \/ Tick
    \/ \E key \in LoadKeys : Set(key, "v")
    \/ \E key \in LoadKeys : Delete(key)
    \/ SaveToFile
    \/ ReadFromFile

SpecLoad == InitLoad /\ [][NextLoad]_vars

\* C1: after any public call returns, the keys met walking next from tail, the
\* keys met walking previous from head and the key set of the map are the same
\* set, both walks end, and no key is met twice.
C1_LinkMapAgreement ==
    Returns =>
        /\ NextWalkEnds(Cache)
        /\ PreviousWalkEnds(Cache)
        /\ NoDuplicates(ListKeys(Cache))
        /\ NoDuplicates(ListKeysBackward(Cache))
        /\ Range(ListKeys(Cache)) = MapKeys(Cache)
        /\ Range(ListKeysBackward(Cache)) = MapKeys(Cache)

\* C2: after any public call returns, tail has no previous link, head has no
\* next link, no other entry of the map has an empty link, head = tail iff
\* count = 1, and head and tail are both nil iff count = 0.
C2_Endpoints ==
    Returns =>
        /\ tail # Nil => heap[tail].previous = Nil
        /\ head # Nil => heap[head].next = Nil
        /\ \A k \in MapKeys(Cache) :
              /\ entries[k] # tail => heap[entries[k]].previous # Nil
              /\ entries[k] # head => heap[entries[k]].next # Nil
        /\ (head # Nil /\ head = tail) <=> LenEntries(Cache) = 1
        /\ (head = Nil /\ tail = Nil) <=> LenEntries(Cache) = 0

\* C4: whenever the memory bound is set, memoryUsage is the sum of the sizes of
\* the entries of the map after every call.
C4_MemoryUsageIsSum ==
    (Returns /\ maxMemoryUsage # NoMaxMemoryUsage) =>
        memoryUsage = SumOfSizes(Cache, MapKeys(Cache))

----------------------------------------------------------------------------
(* SpecConfig: a new cache that is written, read and deleted from, and     *)
(* whose size cap is set at any point.                                     *)

InitConfig == Init

NextConfig ==
    \/ \E n \in MaxSizeArgs : WithMaxSize(n)
    \/ \E key \in Keys : Set(key, "v")
    \/ \E key \in Keys : Get(key)
    \/ \E key \in Keys : Delete(key)
    \/ Clear

SpecConfig == InitConfig /\ [][NextConfig]_vars

\* C3: if maxSize is bounded, the map holds at most maxSize entries after every
\* public call, WithMaxSize included.
C3_SizeBound ==
    (Returns /\ maxSize # NoMaxSize) => LenEntries(Cache) <= maxSize

----------------------------------------------------------------------------
(* SpecRoundTrip: a cache configured at construction that is written       *)
(* (inserts and updates), read and deleted from while time passes.  Each   *)
(* state is saved and read back into an empty cache of the same bounds.    *)

\* NewCache().WithMaxSize(..).WithMaxMemoryUsage(..).WithEvictionPolicy(..)
\* with the bounds and policy of c
NewCacheLike(c) ==
    [entries |-> [k \in Keys |-> Nil], heap |-> << >>, head |-> Nil, tail |-> Nil,
     memoryUsage |-> 0, maxSize |-> c.maxSize,
     maxMemoryUsage |-> c.maxMemoryUsage, evictionPolicy |-> c.evictionPolicy,
     stats |-> [Hits |-> 0, Misses |-> 0, EvictedKeys |-> 0]]

\* SaveToFile of c, then ReadFromFile into an empty cache like c: the outcomes
SaveThenRead(c) == readFromFile(NewCacheLike(c), gobEncode(c))

DistinctTimestamps(c) ==
    \A k1, k2 \in MapKeys(c) :
        k1 # k2 => c.heap[c.entries[k1]].RelevantTimestamp
                     # c.heap[c.entries[k2]].RelevantTimestamp

ValueOf(c, k) == c.heap[c.entries[k]].Value

InitRoundTrip ==
    Configured({DefaultMaxSize}, {NoMaxMemoryUsage}, {FirstInFirstOut, LeastRecentlyUsed})

NextRoundTrip ==
    \/ Tick
    \/ \E key \in Keys : Set(key, "v")
    \/ Set("a", "ww")
    \/ \E key \in Keys : Get(key)
    \/ \E key \in Keys : Delete(key)

SpecRoundTrip == InitRoundTrip /\ [][NextRoundTrip]_vars

\* C5: a cache whose entries have pairwise distinct timestamps, saved and read
\* back into an empty cache of the same bounds and policy, has the same keys,
\* the same value per key and the same list order.
C5_RoundTrip ==
    (Returns /\ DistinctTimestamps(Cache)) =>
        \A r \in SaveThenRead(Cache) :
            /\ ~r.spins
            /\ MapKeys(r.cache) = MapKeys(Cache)
            /\ \A k \in MapKeys(Cache) : ValueOf(r.cache, k) = ValueOf(Cache, k)
            /\ ListKeys(r.cache) = ListKeys(Cache)

----------------------------------------------------------------------------
(* SpecRestore: a cache without a memory bound is filled, one key with or  *)
(* without a TTL, while time passes, and saved; then its size cap is       *)
(* lowered, it is possibly cleared or written again, and the snapshot is   *)
(* read back.                                                              *)

RestoreSizes == {1, 2}

InitRestore ==
    Configured({DefaultMaxSize}, {NoMaxMemoryUsage}, {FirstInFirstOut})

NextRestore ==
    \/ Tick
    \/ ~file.exists /\ \E key \in Keys : get(Cache, key) = Nil /\ Set(key, "v")
    \/ ~file.exists /\ get(Cache, "a") = Nil /\ SetWithTTL("a", "v", 1)
    \/ ~file.exists /\ heap # << >> /\ SaveToFile
    \/ file.exists /\ Set("a", "ww")
    \/ file.exists /\ \E n \in RestoreSizes : WithMaxSize(n)
    \/ file.exists /\ Clear
    \/ file.exists /\ ReadFromFile

SpecRestore == InitRestore /\ [][NextRestore]_vars

\* The keys and the number of entries of a snapshot
SnapshotKeys == DOMAIN file.snapshot

SnapshotLen == Cardinality(SnapshotKeys)

SnapshotDistinct ==
    \A k1, k2 \in SnapshotKeys :
        k1 # k2 => file.snapshot[k1].RelevantTimestamp # file.snapshot[k2].RelevantTimestamp

\* The keys of the snapshot that are not among its d oldest entries
SnapshotNewest(d) ==
    {k \in SnapshotKeys :
        Cardinality({j \in SnapshotKeys :
            file.snapshot[j].RelevantTimestamp < file.snapshot[k].RelevantTimestamp}) >= d}

\* The case of C6: a snapshot of n distinct timestamps about to be read into a
\* cache of bound m < n with no memory bound that holds only keys of the snapshot.
RestoreCase ==
    /\ file.exists
    /\ maxSize # NoMaxSize
    /\ maxMemoryUsage = NoMaxMemoryUsage
    /\ SnapshotDistinct
    /\ MapKeys(Cache) \subseteq SnapshotKeys
    /\ maxSize < SnapshotLen

\* What C6 says of the count, the return value, the counter and the evicted keys
RestoreEvicts ==
    /\ ret'.err = NoError
    /\ ret'.n = SnapshotLen - maxSize
    /\ LenEntries(Cache') = maxSize
    /\ stats'.EvictedKeys = stats.EvictedKeys + (SnapshotLen - maxSize)
    /\ MapKeys(Cache') = SnapshotNewest(SnapshotLen - maxSize)

\* C6 as stated: in that case ReadFromFile evicts the n-m oldest entries, returns
\* n-m, leaves m entries, adds n-m to EvictedKeys, and Get of every remaining
\* key returns its saved value.
C6_SnapshotEviction ==
    [][(ReadFromFile /\ RestoreCase) =>
          /\ RestoreEvicts
          /\ \A k \in MapKeys(Cache') :
                LET g == getValue(Cache', k, now')
                IN  g.ok /\ g.value = file.snapshot[k].Value]_vars

\* C6 amended: the same, where Get of every remaining key that has not expired
\* returns its saved value, and Get of an expired one finds nothing.
C6_SnapshotEvictionUnexpired ==
    [][(ReadFromFile /\ RestoreCase) =>
          /\ RestoreEvicts
          /\ \A k \in MapKeys(Cache') :
                LET g == getValue(Cache', k, now')
                IN  IF Expired(file.snapshot[k], now')
                    THEN ~g.ok
                    ELSE g.ok /\ g.value = file.snapshot[k].Value]_vars

\* ReadFromFile returned 2 evictions and left the newest entry of a snapshot of 3
C6_Witness ==
    /\ file.exists /\ SnapshotLen = 3 /\ SnapshotDistinct
    /\ maxSize = 1 /\ ret.n = 2 /\ stats.EvictedKeys = 2
    /\ MapKeys(Cache) = SnapshotNewest(2)
    /\ \A k \in MapKeys(Cache) : ValueOf(Cache, k) = file.snapshot[k].Value

----------------------------------------------------------------------------
(* SpecMemory: a cache created with a memory bound that is written and     *)
(* deleted from, and whose memory bound is set again at any point.         *)

InitMemory == Configured({DefaultMaxSize}, {9}, {FirstInFirstOut})

NextMemory ==
    \/ \E key \in Keys, value \in Values : Set(key, value)
    \/ \E key \in Keys : Delete(key)
    \/ \E n \in MaxMemoryArgs : WithMaxMemoryUsage(n)

SpecMemory == InitMemory /\ [][NextMemory]_vars

\* The size of the entry Set(key, value) writes
WrittenSize(key, value) == SizeInBytes(NewEntry(key, value, now, Nil))

\* C7: with a memory bound, when Set of an entry that fits the bound on its own
\* returns, memoryUsage is at most maxMemoryUsage.
C7_MemoryBound ==
    [][\A key \in Keys, value \in Values :
          (/\ Set(key, value)
           /\ maxMemoryUsage # NoMaxMemoryUsage
           /\ WrittenSize(key, value) <= maxMemoryUsage)
          => memoryUsage' <= maxMemoryUsage']_vars

----------------------------------------------------------------------------
(* SpecEvict: a FIFO cache holding at most two entries, with or without a  *)
(* memory bound, is written while time passes and saved, and the snapshot  *)
(* is read back into whatever the cache then holds.                        *)

InitEvict == Configured({2}, {NoMaxMemoryUsage, 9}, {FirstInFirstOut})

NextEvict ==
    \/ Tick
    \/ \E key \in Keys : Set(key, "v")
    \/ SaveToFile
    \/ ReadFromFile

SpecEvict == InitEvict /\ [][NextEvict]_vars

\* s without its first d elements
DropFirst(s, d) == SubSeq(s, d + 1, Len(s))

\* The step ends in the cache `before` minus what the evictions counted by
\* EvictedKeys removed, each of them the tail of its moment: the keys of the map
\* are those of `before` without the first ones of its list, the list is the
\* rest in the same order, and the counter grew by the number of removed entries.
EvictsFromTail(before) ==
    LET d == stats'.EvictedKeys - stats.EvictedKeys
        list == LiveList(before)
    IN  /\ d <= Len(list)
        /\ MapKeys(Cache') = MapKeys(before) \ {list[i] : i \in 1..d}
        /\ LenEntries(Cache') = LenEntries(before) - d
        /\ LiveList(Cache') = DropFirst(list, d)
        /\ d < Len(list) => tail' # Nil /\ heap'[tail'].Key = list[d + 1]

\* C8: the evictions of a Set and of a ReadFromFile each remove the entry at
\* tail, make its next entry the tail, leave the other entries and their order
\* alone, and add one to EvictedKeys per removed entry.
C8_EvictionRemovesTail ==
    [][/\ \A key \in Keys :
            Set(key, "v") => EvictsFromTail(setEntry(Cache, key, "v", NoExpiration, now))
       /\ (ReadFromFile /\ file.exists) =>
            \E x \in readRelinked(Cache, file.snapshot) :
                /\ EndsWith(ReadEnforceBounds(x),
                            [Returned EXCEPT !.n = ReadEnforceBounds(x).evictions])
                /\ EvictsFromTail(x)]_vars

----------------------------------------------------------------------------
(* SpecFIFO: a FIFO cache, bounded or not, into which keys that are not in *)
(* it are inserted, with or without a TTL, and that is read while time     *)
(* passes.  No entry is updated and none is deleted by a caller.           *)

FIFOTTLs == {NoExpiration, 1}

InitFIFO == Configured({1, 2, DefaultMaxSize}, {NoMaxMemoryUsage}, {FirstInFirstOut})

\* SetWithTTL of a key that is not in the map
Insert(key, ttl) == get(Cache, key) = Nil /\ SetWithTTL(key, "v", ttl)

NextFIFO ==
    \/ Tick
    \/ \E key \in Keys, ttl \in FIFOTTLs : Insert(key, ttl)
    \/ \E key \in Keys : Get(key)

SpecFIFO == InitFIFO /\ [][NextFIFO]_vars

\* key is in the map and its entry has expired
HoldsExpired(key) == get(Cache, key) # Nil /\ Expired(heap[get(Cache, key)], now)

\* list, then key, without its first elements beyond the most recent n
InsertedInto(list, key, n) ==
    LET l == Append(list, key)
    IN  IF n # NoMaxSize /\ Len(l) > n THEN Tail(l) ELSE l

\* C9: under FIFO the list is the keys in insertion order, oldest at tail: an
\* insert appends its key at head and, when the cache is over maxSize, evicts the
\* key inserted first; a Get that deletes no expired entry leaves the list as it is.
C9_FIFOOrder ==
    [][/\ \A key \in Keys, ttl \in FIFOTTLs :
            Insert(key, ttl) =>
                /\ LiveList(Cache') = InsertedInto(LiveList(Cache), key, maxSize)
                /\ LiveListBackward(Cache') = Reverse(LiveList(Cache'))
       /\ \A key \in Keys :
            (Get(key) /\ ~HoldsExpired(key)) =>
                /\ LiveList(Cache') = LiveList(Cache)
                /\ LiveListBackward(Cache') = LiveListBackward(Cache)]_vars

\* Three inserts into a cache of two and a Get that found its key: the key
\* inserted first was evicted, and b, inserted before c, is at tail
C9_Witness ==
    /\ evictionPolicy = FirstInFirstOut
    /\ maxSize = 2
    /\ stats.Hits >= 1
    /\ stats.EvictedKeys = 1
    /\ LiveList(Cache) = <<"b", "c">>
    /\ tail # Nil /\ heap[tail].Key = "b"

----------------------------------------------------------------------------
(* SpecLRU: an LRU cache is written and read, saved, and the snapshot is   *)
(* read back into whatever the cache then holds, all within one reading of *)
(* the clock.                                                              *)

InitLRU == Configured({DefaultMaxSize}, {NoMaxMemoryUsage}, {LeastRecentlyUsed})

NextLRU ==
    \/ \E key \in Keys : Set(key, "v")
    \/ \E key \in Keys : Get(key)
    \/ SaveToFile
    \/ ReadFromFile

SpecLRU == InitLRU /\ [][NextLRU]_vars

\* list without key
Without(list, key) == SelectSeq(list, LAMBDA k : k # key)

\* key is in the map and its entry has not expired
HoldsLive(key) == get(Cache, key) # Nil /\ ~Expired(heap[get(Cache, key)], now)

\* Every key of `before` is in `after`, and two keys of `before` come in `after`
\* in the order they have in `before`.
KeepsOrder(before, after) ==
    /\ \A i \in 1..Len(before) : \E m \in 1..Len(after) : after[m] = before[i]
    /\ \A i, j \in 1..Len(before) :
          i < j => \E m, n \in 1..Len(after) :
                      m < n /\ after[m] = before[i] /\ after[n] = before[j]

\* C10: under LRU a Get that finds a live key returns it, makes its entry the
\* head and leaves the other entries in the order they had, so that the tail, the
\* entry evicted next, is the one accessed longest ago.
C10_LRUOrder ==
    [][\A key \in Keys :
          (Get(key) /\ evictionPolicy = LeastRecentlyUsed /\ HoldsLive(key)) =>
              /\ ret'.ok
              /\ head' # Nil /\ head' = get(Cache', key)
              /\ MapKeys(Cache') = MapKeys(Cache)
              /\ KeepsOrder(Without(LiveList(Cache), key), LiveList(Cache'))
              /\ KeepsOrder(Without(LiveListBackward(Cache), key),
                            LiveListBackward(Cache'))]_vars

----------------------------------------------------------------------------
(* SpecExpiry: a cache of either policy, with or without a memory bound,   *)
(* is written with no expiration and with a TTL of 0, which expires at     *)
(* once, then read, saved and loaded (two of the keys are used).           *)

ExpiryTTLs == {NoExpiration, 0}

InitExpiry ==
    Configured({DefaultMaxSize}, {NoMaxMemoryUsage, 9},
               {FirstInFirstOut, LeastRecentlyUsed})

NextExpiry ==
    \/ \E key \in LoadKeys, ttl \in ExpiryTTLs : SetWithTTL(key, "v", ttl)
    \/ \E key \in LoadKeys : Get(key)
    \/ SaveToFile
    \/ ReadFromFile

SpecExpiry == InitExpiry /\ [][NextExpiry]_vars

\* The entry p is met neither walking next from tail nor previous from head
OffList(c, p) ==
    /\ p \notin Range(WalkNext(c.heap, c.tail, << >>))
    /\ p \notin Range(WalkPrevious(c.heap, c.head, << >>))

\* C11: a Get of a key whose entry has expired returns nothing, adds one to
\* Hits and nothing to Misses, and removes the entry from the map and from the
\* list, and its size from memoryUsage when the memory bound is set, without
\* promoting it; the count drops by one.
C11_ExpiryOnRead ==
    [][\A key \in Keys :
          (Get(key) /\ HoldsExpired(key)) =>
              /\ ~ret'.ok
              /\ ret'.value = NoValue
              /\ stats'.Hits = stats.Hits + 1
              /\ stats'.Misses = stats.Misses
              /\ stats'.EvictedKeys = stats.EvictedKeys
              /\ MapKeys(Cache') = MapKeys(Cache) \ {key}
              /\ LenEntries(Cache') = LenEntries(Cache) - 1
              /\ OffList(getValue(Cache, key, now).cache, get(Cache, key))
              /\ head' = Nil \/ heap'[head'].Key # key \/ ~InMap(Cache', head')
              /\ memoryUsage' = IF maxMemoryUsage # NoMaxMemoryUsage
                                THEN memoryUsage - SizeInBytes(heap[get(Cache, key)])
                                ELSE memoryUsage]_vars

----------------------------------------------------------------------------
(* SpecExpireRace: two goroutines call a FIFO cache at the same time.       *)
(* Expire runs in two steps, the lookup and the rest, and Delete in two,    *)
(* mutex.Lock() and the rest; Set and Clear run between them.  Nothing      *)
(* runs once the runtime has stopped the process.                           *)

FatalError == "fatal error: concurrent map read and map write"

\* The process has not died
Running == ret.err # FatalError

\* cache.mutex.Lock() of Delete(key): goroutine t enters its critical section
DeleteLock(t, key) ==
    /\ mutex = "unlocked"
    /\ calls[t] = Idle
    /\ mutex' = "locked"
    /\ calls' = [calls EXCEPT ![t] = [Idle EXCEPT !.op = "Delete", !.key = key]]
    /\ CacheUnchanged
    /\ UNCHANGED <<now, file, ret>>

\* The rest of Delete: cache.delete(key) and cache.mutex.Unlock()
DeleteUnlock(t) ==
    /\ calls[t].op = "Delete"
    /\ BecomesWith(delete(Cache, calls[t].key), [calls EXCEPT ![t] = Idle])
    /\ mutex' = "unlocked"
    /\ ret' = [Returned EXCEPT !.ok = (get(Cache, calls[t].key) # Nil)]
    /\ UNCHANGED <<now, file>>

\* What cache.get(key) gives a caller that holds no lock: the entry of the map,
\* and, while a goroutine is in a critical section that writes the map, also
\* the entry the map holds after that write, or the runtime's fatal error.
UnlockedGet(key) ==
    {[entry |-> get(Cache, key), fatal |-> FALSE]}
    \cup UNION {{[entry |-> get(delete(Cache, calls[u].key), key), fatal |-> FALSE],
                 [entry |-> Nil, fatal |-> TRUE]} :
                    u \in {v \in Threads : calls[v].op = "Delete"}}

\* entry, ok := cache.get(key) of Expire(key, ttl), run by goroutine t
ExpireLookup(t, key, ttl) ==
    /\ calls[t] = Idle
    /\ \E got \in UnlockedGet(key) :
          IF got.fatal
          THEN /\ ret' = [Returned EXCEPT !.err = FatalError]
               /\ UNCHANGED calls
          ELSE /\ calls' = [calls EXCEPT ![t] = [op |-> "Expire", key |-> key,
                                                  ttl |-> ttl, entry |-> got.entry,
                                                  n |-> 0]]
               /\ UNCHANGED ret
    /\ CacheUnchanged
    /\ UNCHANGED <<mutex, now, file>>

\* The rest of Expire: the test of ok and entry.Expired(), the write of
\* entry.Expiration and the return
ExpireReturn(t) ==
    /\ calls[t].op = "Expire"
    /\ LET r == expireEntry(Cache, calls[t].entry, calls[t].ttl, now)
       IN  /\ BecomesWith(r.cache, [calls EXCEPT ![t] = Idle])
           /\ ret' = [Returned EXCEPT !.ok = r.ok]
    /\ UNCHANGED <<mutex, now, file>>

RaceTTLs == {NoExpiration, 1}

InitExpireRace == Configured({DefaultMaxSize}, {NoMaxMemoryUsage}, {FirstInFirstOut})

NextExpireRace ==
    \/ \E key \in LoadKeys : Running /\ Set(key, "v")
    \/ Running /\ Clear
    \/ \E t \in Threads, key \in LoadKeys : Running /\ DeleteLock(t, key)
    \/ \E t \in Threads : Running /\ DeleteUnlock(t)
    \/ \E t \in Threads, key \in LoadKeys, ttl \in RaceTTLs :
          Running /\ ExpireLookup(t, key, ttl)
    \/ \E t \in Threads : Running /\ ExpireReturn(t)

SpecExpireRace == InitExpireRace /\ [][NextExpireRace]_vars

\* C12: Expire looks its key up and writes the expiration only while no other
\* goroutine is in its critical section, and it returns true only for an entry
\* that is still the entry of its key in the map.
C12_ExpireHoldsLock ==
    [][\A t \in Threads :
          /\ (\E key \in Keys, ttl \in RaceTTLs : ExpireLookup(t, key, ttl)) =>
                mutex = "unlocked"
          /\ ExpireReturn(t) =>
                /\ mutex = "unlocked"
                /\ ret'.ok => get(Cache, calls[t].key) = calls[t].entry]_vars

\* An Expire that looked its key up before a Delete removed it returns true
ExpireOfRemovedEntry ==
    [][\A t \in Threads :
          (ExpireReturn(t) /\ ret'.ok) => get(Cache, calls[t].key) = calls[t].entry]_vars

----------------------------------------------------------------------------
(* SpecNegativeTTL: a cache of at most two entries, of either policy, with *)
(* or without a memory bound, is written with no expiration and with a     *)
(* negative TTL while time passes.                                         *)

NegativeTTLs == {ttl \in TTLs : ttl # NoExpiration /\ ttl < 0}

InitNegativeTTL ==
    Configured({2}, {NoMaxMemoryUsage, 9}, {FirstInFirstOut, LeastRecentlyUsed})

NextNegativeTTL ==
    \/ Tick
    \/ \E key \in Keys : Set(key, "v")
    \/ \E key \in Keys, value \in Values, ttl \in NegativeTTLs :
          SetWithTTL(key, value, ttl)

SpecNegativeTTL == InitNegativeTTL /\ [][NextNegativeTTL]_vars

\* C13: a SetWithTTL with a negative TTL other than NoExpiration changes
\* nothing, whether its key is in the map or not: the entries, their values and
\* expirations, the list, memoryUsage and the stats stay as they are, and the
\* call reports nothing.
C13_NegativeTTLNoOp ==
    [][\A key \in Keys, value \in Values, ttl \in NegativeTTLs :
          SetWithTTL(key, value, ttl) => CacheUnchanged /\ ret' = Returned]_vars

\* C13, for the keys it holds for: a SetWithTTL with a negative TTL other than
\* NoExpiration changes nothing and reports nothing when its key is not in the
\* map.  When the key is in the map the call updates it as any other
\* SetWithTTL does and reports nothing: no key is added, Hits and Misses stay,
\* and unless the bounds evict the entry its value is replaced, it becomes the
\* head, it keeps its RelevantTimestamp and its expiration becomes now + ttl,
\* which has passed.
C13_NegativeTTLNoOpOnInsert ==
    [][\A key \in Keys, value \in Values, ttl \in NegativeTTLs :
          SetWithTTL(key, value, ttl) =>
              /\ ret' = Returned
              /\ get(Cache, key) = Nil => CacheUnchanged
              /\ get(Cache, key) # Nil =>
                    /\ MapKeys(Cache') \subseteq MapKeys(Cache)
                    /\ stats'.Hits = stats.Hits
                    /\ stats'.Misses = stats.Misses
                    /\ get(Cache', key) # Nil =>
                          /\ head' = get(Cache', key)
                          /\ heap'[head'].Value = value
                          /\ heap'[head'].Expiration = now + ttl
                          /\ heap'[head'].RelevantTimestamp =
                                heap[get(Cache, key)].RelevantTimestamp
                          /\ HoldsExpired(key)']_vars

\* A negative TTL was given for the key at head, which was in the map, while
\* another key is not in the map
C13_Witness ==
    /\ head # Nil
    /\ heap[head].Expiration # NoExpiration
    /\ heap[head].Expiration < heap[head].RelevantTimestamp
    /\ heap[head].Value = "ww"
    /\ LenEntries(Cache) = 2
    /\ tail # head

----------------------------------------------------------------------------
(* SpecPattern: a cache of either policy is written with and without a TTL, *)
(* read and searched by pattern while time passes (two of the keys are     *)
(* used).                                                                  *)

InitPattern ==
    Configured({DefaultMaxSize}, {NoMaxMemoryUsage}, {FirstInFirstOut, LeastRecentlyUsed})

NextPattern ==
    \/ Tick
    \/ \E key \in LoadKeys, ttl \in FIFOTTLs : SetWithTTL(key, "v", ttl)
    \/ \E key \in LoadKeys : Get(key)
    \/ \E pattern \in Patterns, limit \in {0, 1} : GetKeysByPattern(pattern, limit)

SpecPattern == InitPattern /\ [][NextPattern]_vars

\* The keys of the map that match pattern, expired or not
Matching(pattern) == {k \in MapKeys(Cache) : MatchPattern(pattern, k)}

\* C14: GetKeysByPattern leaves the stats, the list with head and tail, the map
\* and every entry (RelevantTimestamp and Expiration included) as they are,
\* under both policies, and it returns matching keys whether expired or not:
\* all of them without a limit, and limit of them when more than limit match.
C14_PatternSearchChangesNothing ==
    [][\A pattern \in Patterns, limit \in {0, 1} :
          GetKeysByPattern(pattern, limit) =>
              /\ CacheUnchanged
              /\ ret'.keys \subseteq Matching(pattern)
              /\ limit = 0 => ret'.keys = Matching(pattern)
              /\ limit > 0 =>
                    Cardinality(ret'.keys) =
                        IF Cardinality(Matching(pattern)) > limit
                        THEN limit
                        ELSE Cardinality(Matching(pattern))]_vars

\* A search under LRU, after hits, returned two keys of which one has expired
C14_Witness ==
    /\ evictionPolicy = LeastRecentlyUsed
    /\ stats.Hits > 0
    /\ Cardinality(ret.keys) = 2
    /\ \E key \in ret.keys : HoldsExpired(key)
    /\ \E key \in ret.keys : HoldsLive(key)

----------------------------------------------------------------------------
(* SpecExpire: a cache of at most two entries, of either policy, with or   *)
(* without a memory bound, is written, read and given expirations, among   *)
(* them expirations that have passed, one call after the other.            *)

InitExpire ==
    Configured({2}, {NoMaxMemoryUsage, 9}, {FirstInFirstOut, LeastRecentlyUsed})

NextExpire ==
    \/ \E key \in Keys : Set(key, "v")
    \/ \E key \in LoadKeys : Get(key)
    \/ \E key \in Keys, ttl \in TTLs : Expire(key, ttl)

SpecExpire == InitExpire /\ [][NextExpire]_vars

\* C15: Expire returns false and changes nothing when its key is not in the
\* map or has expired; otherwise it returns true and changes the Expiration of
\* that entry and nothing else: the map, the list with head and tail, every
\* RelevantTimestamp, memoryUsage and the stats stay, so the entry keeps its
\* place in the eviction order.
C15_ExpireChangesExpirationOnly ==
    [][\A key \in Keys, ttl \in TTLs :
          Expire(key, ttl) =>
              IF get(Cache, key) = Nil \/ HoldsExpired(key)
              THEN ~ret'.ok /\ CacheUnchanged
              ELSE /\ ret'.ok
                   /\ heap' = [heap EXCEPT ![get(Cache, key)].Expiration =
                                               ExpirationFor(ttl, now)]
                   /\ UNCHANGED <<entries, head, tail, memoryUsage, maxSize,
                                  maxMemoryUsage, evictionPolicy, stats>>
                   /\ LiveList(Cache') = LiveList(Cache)]_vars

\* Under LRU the entry at tail, the next to be evicted, was given an expiration
\* after the other entry was read
C15_Witness ==
    /\ evictionPolicy = LeastRecentlyUsed
    /\ ret.ok
    /\ LenEntries(Cache) = 2
    /\ tail # Nil /\ heap[tail].Expiration # NoExpiration
    /\ head # Nil /\ heap[head].Expiration = NoExpiration
    /\ stats.Hits > 0

----------------------------------------------------------------------------
(* SpecTTL: a cache of either policy is written with and without a TTL,    *)
(* read and asked for the remaining time of its keys, one call after the   *)
(* other, while time passes (two of the keys are written).                 *)

InitTTL ==
    Configured({DefaultMaxSize}, {NoMaxMemoryUsage}, {FirstInFirstOut, LeastRecentlyUsed})

NextTTL ==
    \/ Tick
    \/ \E key \in LoadKeys, ttl \in FIFOTTLs : SetWithTTL(key, "v", ttl)
    \/ \E key \in LoadKeys : Get(key)
    \/ \E key \in Keys : TTL(key)

SpecTTL == InitTTL /\ [][NextTTL]_vars

\* C16: TTL returns ErrKeyDoesNotExist when its key is not in the map or is in
\* the map with an expiration earlier than now, ErrKeyHasNoExpiration when the
\* entry has no expiration, and otherwise no error and the remaining time
\* Expiration - now, which is not negative; it changes nothing in the cache.
C16_TTLResults ==
    [][\A key \in Keys :
          TTL(key) =>
              /\ CacheUnchanged
              /\ LET entry == get(Cache, key)
                 IN  IF entry = Nil
                     THEN ret'.err = ErrKeyDoesNotExist
                     ELSE IF heap[entry].Expiration = NoExpiration
                          THEN ret'.err = ErrKeyHasNoExpiration
                          ELSE IF heap[entry].Expiration < now
                               THEN ret'.err = ErrKeyDoesNotExist
                               ELSE /\ ret'.err = NoError
                                    /\ ret'.n = heap[entry].Expiration - now
                                    /\ ret'.n >= 0]_vars

\* TTL was asked for a key that is in the map with an expiration earlier than now
C16_Witness ==
    /\ ret.err = ErrKeyDoesNotExist
    /\ LenEntries(Cache) = 2
    /\ \E key \in Keys : HoldsExpired(key) /\ heap[get(Cache, key)].Expiration < now
    /\ \E key \in Keys : HoldsLive(key)
    /\ stats.Hits > 0

----------------------------------------------------------------------------
(* SpecStatsRace: two goroutines call Get on a cache at the same time.     *)
(* The critical section of Get is one step; the cache.stats.Misses++ that  *)
(* follows mutex.Unlock() on the miss path is two, the load and the store. *)
(* Set and Delete run between them.                                        *)

\* Get(key) by goroutine t from mutex.Lock() to mutex.Unlock(): on the hit path
\* the call ends here, on the miss path Misses++ is still to come.
GetLocked(t, key) ==
    /\ mutex = "unlocked"
    /\ calls[t] = Idle
    /\ IF get(Cache, key) = Nil
       THEN /\ calls' = [calls EXCEPT ![t] = [Idle EXCEPT !.op = "Get", !.key = key]]
            /\ CacheUnchanged
            /\ UNCHANGED ret
       ELSE LET r == getValue(Cache, key, now)
            IN  /\ Becomes(r.cache)
                /\ ret' = [Returned EXCEPT !.value = r.value, !.ok = r.ok]
    /\ UNCHANGED <<mutex, now, file>>

\* cache.stats.Misses++, first half: goroutine t loads the counter
MissesLoad(t) ==
    /\ calls[t].op = "Get"
    /\ calls' = [calls EXCEPT ![t].op = "Misses++", ![t].n = stats.Misses]
    /\ CacheUnchanged
    /\ UNCHANGED <<mutex, now, file, ret>>

\* cache.stats.Misses++, second half: goroutine t stores the counter; then
\* return nil, false
MissesStore(t) ==
    /\ calls[t].op = "Misses++"
    /\ BecomesWith([Cache EXCEPT !.stats.Misses = calls[t].n + 1],
                   [calls EXCEPT ![t] = Idle])
    /\ ret' = Returned
    /\ UNCHANGED <<mutex, now, file>>

InitStatsRace ==
    Configured({DefaultMaxSize}, {NoMaxMemoryUsage}, {FirstInFirstOut, LeastRecentlyUsed})

NextStatsRace ==
    \/ \E key \in LoadKeys : Set(key, "v")
    \/ \E key \in LoadKeys : Delete(key)
    \/ \E t \in Threads, key \in LoadKeys : GetLocked(t, key)
    \/ \E t \in Threads : MissesLoad(t)
    \/ \E t \in Threads : MissesStore(t)

SpecStatsRace == InitStatsRace /\ [][NextStatsRace]_vars

\* C17: the counters change only inside a critical section, where no other
\* goroutine can be between the load and the store of a counter, so no update is
\* lost: the store that ends a Get that missed leaves Misses one higher than it
\* was before the store.
C17_NoLostUpdate ==
    [][\A t \in Threads : MissesStore(t) => stats'.Misses = stats.Misses + 1]_vars

----------------------------------------------------------------------------
(* SpecReadError: a FIFO cache is written, read, counted, saved and loaded; *)
(* the file at the path may be one that does not decode.                    *)

InitReadError == Configured({DefaultMaxSize}, {NoMaxMemoryUsage}, {FirstInFirstOut})

NextReadError ==
    \/ Tick
    \/ \E key \in LoadKeys : Set(key, "v")
    \/ \E key \in LoadKeys : Get(key)
    \/ Count
    \/ SaveToFile
    \/ WriteOtherFile
    \/ ReadFromFile

SpecReadError == InitReadError /\ [][NextReadError]_vars

\* C18: ReadFromFile unlocks the mutex on every return path: once it has
\* returned its decode error the mutex is unlocked, so that a later
\* ReadFromFile, Set, Get or Count can lock it.
C18_ReadErrorReleasesLock == ret.err = ErrDecode => mutex = "unlocked"

----------------------------------------------------------------------------
(* SpecTTLRace: two goroutines call TTL on a cache while Set, SetWithTTL    *)
(* and Expire run.  TTL is three steps: the lookup under the read lock,     *)
(* the test of entry.Expiration against NoExpiration, and the computation   *)
(* of the remaining time from entry.Expiration.  The clock stands still     *)
(* and nothing is deleted or evicted, so every key stays in the map once    *)
(* written, and no entry ever expires.                                      *)

\* TTL(key) by goroutine t from mutex.RLock() to mutex.RUnlock()
TTLLookup(t, key) ==
    /\ mutex = "unlocked"
    /\ calls[t] = Idle
    /\ calls' = [calls EXCEPT ![t] = [Idle EXCEPT !.op = "TTL", !.key = key,
                                                  !.entry = get(Cache, key)]]
    /\ CacheUnchanged
    /\ UNCHANGED <<mutex, now, file, ret>>

\* if !ok { return } and if entry.Expiration == NoExpiration { return }: the
\* first read of entry.Expiration
TTLTest(t) ==
    /\ calls[t].op = "TTL"
    /\ IF calls[t].entry = Nil
       THEN /\ ret' = [Returned EXCEPT !.err = ErrKeyDoesNotExist]
            /\ BecomesWith(Cache, [calls EXCEPT ![t] = Idle])
       ELSE IF heap[calls[t].entry].Expiration = NoExpiration
            THEN /\ ret' = [Returned EXCEPT !.err = ErrKeyHasNoExpiration]
                 /\ BecomesWith(Cache, [calls EXCEPT ![t] = Idle])
            ELSE /\ calls' = [calls EXCEPT ![t].op = "time.Until"]
                 /\ CacheUnchanged
                 /\ UNCHANGED ret
    /\ UNCHANGED <<mutex, now, file>>

\* time.Until(time.Unix(0, entry.Expiration)), the second read of
\* entry.Expiration, and the return
TTLUntil(t) ==
    /\ calls[t].op = "time.Until"
    /\ LET timeUntilExpiration == heap[calls[t].entry].Expiration - now
       IN  ret' = IF timeUntilExpiration < 0
                  THEN [Returned EXCEPT !.err = ErrKeyDoesNotExist]
                  ELSE [Returned EXCEPT !.n = timeUntilExpiration]
    /\ BecomesWith(Cache, [calls EXCEPT ![t] = Idle])
    /\ UNCHANGED <<mutex, now, file>>

InitTTLRace == Configured({DefaultMaxSize}, {NoMaxMemoryUsage}, {FirstInFirstOut})

NextTTLRace ==
    \/ \E key \in LoadKeys, ttl \in RaceTTLs : SetWithTTL(key, "v", ttl)
    \/ \E key \in LoadKeys, ttl \in RaceTTLs : Expire(key, ttl)
    \/ \E t \in Threads, key \in LoadKeys : TTLLookup(t, key)
    \/ \E t \in Threads : TTLTest(t)
    \/ \E t \in Threads : TTLUntil(t)

SpecTTLRace == InitTTLRace /\ [][NextTTLRace]_vars

\* C19: TTL bases its test and its computation on one value of the
\* expiration, so a TTL that found its key, which stays in the map and never
\* expires whatever is written meanwhile, does not return ErrKeyDoesNotExist.
C19_TTLReadsOnce ==
    [][\A t \in Threads :
          ((TTLTest(t) \/ TTLUntil(t)) /\ calls[t].entry # Nil) =>
              ret'.err # ErrKeyDoesNotExist]_vars

----------------------------------------------------------------------------
(* SpecUpdate: a cache of either policy, with or without a memory bound,   *)
(* is written with values of two sizes, with and without a TTL, while time *)
(* passes.  Keys are written again at the tail, in the middle and at the   *)
(* head of the list.                                                       *)

UpdateMemories == {NoMaxMemoryUsage, 8}

InitUpdate ==
    Configured({DefaultMaxSize}, UpdateMemories, {FirstInFirstOut, LeastRecentlyUsed})

NextUpdate ==
    \/ Tick
    \/ \E key \in Keys : Set(key, "v")
    \/ Set("b", "ww")
    \/ SetWithTTL("a", "v", 1)

SpecUpdate == InitUpdate /\ [][NextUpdate]_vars

\* The entry of key in the cache after the step holds value with the expiration
\* of ttl and the RelevantTimestamp it had
Updated(key, value, ttl) ==
    /\ ValueOf(Cache', key) = value
    /\ heap'[get(Cache', key)].Expiration = ExpirationFor(ttl, now)
    /\ heap'[get(Cache', key)].RelevantTimestamp =
          heap[get(Cache, key)].RelevantTimestamp

----------------------------------------------------------------------------
(* SpecOwnEntry: a cache of at most one or two entries, of either policy,   *)
(* without a memory bound or with one that the larger value alone exceeds   *)
(* (4) or that two entries can exceed (9), is written with values of two    *)
(* sizes, deleted from, saved and loaded.                                   *)

OwnEntrySizes == {1, 2}

OwnEntryMemories == {NoMaxMemoryUsage, 4, 9}

InitOwnEntry ==
    Configured(OwnEntrySizes, OwnEntryMemories, {FirstInFirstOut, LeastRecentlyUsed})

NextOwnEntry ==
    \/ \E key \in LoadKeys, value \in Values : Set(key, value)
    \/ \E key \in LoadKeys : Delete(key)
    \/ SaveToFile
    \/ ReadFromFile

SpecOwnEntry == InitOwnEntry /\ [][NextOwnEntry]_vars

\* C21: with maxSize at least 1, a Set whose entry fits the memory bound on its
\* own (or with no memory bound) leaves its entry in the cache, so that a Get of
\* the key right after it returns the value written; a Set whose entry alone
\* exceeds the memory bound evicts every entry, its own included, and leaves
\* the map and the list empty and memoryUsage 0.
C21_OwnEntrySurvives ==
    [][\A key \in Keys, value \in Values :
          (Set(key, value) /\ maxSize # NoMaxSize /\ maxSize >= 1) =>
              IF maxMemoryUsage = NoMaxMemoryUsage
                 \/ WrittenSize(key, value) <= maxMemoryUsage
              THEN LET g == getValue(Cache', key, now')
                   IN  g.ok /\ g.value = value
              ELSE /\ LenEntries(Cache') = 0
                   /\ head' = Nil
                   /\ tail' = Nil
                   /\ memoryUsage' = 0]_vars

====
